---- MODULE Spec2Model ----
(***************************************************************************)
(* Focus / pomodoro session timer of the Dashboard component               *)
(* (src/components/Dashboard.tsx) together with the two task stores it     *)
(* writes to: the day's plan (App.handleUpdatePlan) and the environment    *)
(* task list of the user record (App.handleUpdateUser).                    *)
(*                                                                         *)
(* One action is one event handler or timer callback followed by the       *)
(* React render it causes and the effects of that render, in the order the *)
(* component declares them.  Handlers read the values of the render they   *)
(* were created in: a value set with a state setter inside a handler is    *)
(* visible only to the effects, never to the rest of the same handler.     *)
(***************************************************************************)
EXTENDS Integers, FiniteSets, Sequences, TLC

\* ------------------------------------------------------------------ bounds
\* Number of clock advances that is explored.
MaxAdvances == 4
\* Number of user intents (button presses, list edits, reloads) that is explored.
MaxIntents == 4

\* --------------------------------------------------------------- constants
POMODORO_TIME == 1500
SHORT_BREAK_TIME == 300
LONG_BREAK_TIME == 900

\* Date.now() of the first mount; any positive epoch value.
Epoch0 == 1000000
\* Clock advances that are explored (ms): two minutes and five and a half
\* seconds (Math.round has a half to round), and a whole focus interval.
Deltas == {125500, 1500000}

TaskIds == {"t1", "t2"}
NoTask == "null"
NoMode == "null"
Null == 0
\* A stored field that is absent or fails typeof === 'number'.
NotANumber == -1

VARIABLES
  now,                    \* Date.now()
  activeFocusTaskId,      \* useState
  focusMode,              \* useState
  timerValue,             \* useState
  isTimerActive,          \* useState
  pomodoroCycle,          \* useState
  endTimeRef,             \* useRef
  startTimeRef,           \* useRef
  accumulatedElapsedRef,  \* useRef
  cbTimerValue,           \* timerValue captured by the live interval callback
  cbEnvTasks,             \* user.environments captured by the live interval callback
  dailyPlan,              \* App state: [unit, tasks]
  envTasks,               \* App state: tasks of the user's active environment
  persisted,              \* localStorage entry of getStorageKey()
  intents,                \* user intents handled so far (exploration budget)
  advances                \* clock advances so far (exploration budget)

vars == <<now, activeFocusTaskId, focusMode, timerValue, isTimerActive,
          pomodoroCycle, endTimeRef, startTimeRef, accumulatedElapsedRef,
          cbTimerValue, cbEnvTasks, dailyPlan, envTasks, persisted, intents, advances>>

\* ----------------------------------------------------------------- helpers
\* Math.round(ms / 1000): halves round towards +infinity.
RoundSeconds(ms) == (ms + 500) \div 1000

Max0(x) == IF x > 0 THEN x ELSE 0

\* Variant without the clamp: negative once the end time has passed.
computeRemainingSecondsSigned(endTimestamp, t) ==
  IF endTimestamp = Null THEN 0 ELSE RoundSeconds(endTimestamp - t)

\* Math.max(0, Math.round((endTimestamp - Date.now()) / 1000)), 0 without an end
computeRemainingSeconds(endTimestamp, t) ==
  IF endTimestamp = Null THEN 0 ELSE Max0(RoundSeconds(endTimestamp - t))

\* accumulated + Math.round((Date.now() - startTimestamp) / 1000)
computeElapsedSeconds(startTimestamp, accumulated, t) ==
  IF startTimestamp # Null THEN Max0(accumulated + RoundSeconds(t - startTimestamp))
  ELSE Max0(accumulated)

IsBreak(m) == m \in {"short_break", "long_break"}

NoEnv == [i \in {} |-> 0]

\* The component as one record: what a handler reads and what it leaves.
Cur ==
  [now |-> now, activeFocusTaskId |-> activeFocusTaskId, focusMode |-> focusMode,
   timerValue |-> timerValue, isTimerActive |-> isTimerActive,
   pomodoroCycle |-> pomodoroCycle, endTimeRef |-> endTimeRef,
   startTimeRef |-> startTimeRef, accumulatedElapsedRef |-> accumulatedElapsedRef,
   cbTimerValue |-> cbTimerValue, cbEnvTasks |-> cbEnvTasks,
   dailyPlan |-> dailyPlan, envTasks |-> envTasks, persisted |-> persisted]

Commit(c) ==
  /\ activeFocusTaskId' = c.activeFocusTaskId
  /\ focusMode' = c.focusMode
  /\ timerValue' = c.timerValue
  /\ isTimerActive' = c.isTimerActive
  /\ pomodoroCycle' = c.pomodoroCycle
  /\ endTimeRef' = c.endTimeRef
  /\ startTimeRef' = c.startTimeRef
  /\ accumulatedElapsedRef' = c.accumulatedElapsedRef
  /\ cbTimerValue' = c.cbTimerValue
  /\ cbEnvTasks' = c.cbEnvTasks
  /\ dailyPlan' = c.dailyPlan
  /\ envTasks' = c.envTasks
  /\ persisted' = c.persisted

\* Variant that stores the seconds and leaves the absolute timestamps out.
SnapshotWithoutTimestamps(fm, id, cyc, tv, active, endT, startT, acc) ==
  [present |-> TRUE, parses |-> TRUE, focusMode |-> fm, activeFocusTaskId |-> id,
   pomodoroCycle |-> cyc, timerValue |-> tv, isTimerActive |-> active,
   endTime |-> Null, startTime |-> Null, accumulated |-> acc]

\* The object both persistence sites serialise.  JSON.stringify / JSON.parse
\* keep numbers, strings, booleans and null of a flat object as they are.
Snapshot(fm, id, cyc, tv, active, endT, startT, acc) ==
  [present |-> TRUE, parses |-> TRUE, focusMode |-> fm, activeFocusTaskId |-> id,
   pomodoroCycle |-> cyc, timerValue |-> tv, isTimerActive |-> active,
   endTime |-> endT, startTime |-> startT, accumulated |-> acc]

\* localStorage.removeItem / an entry that was never written: getItem gives
\* null.  An entry with parses = FALSE holds bytes JSON.parse throws on.
NoSnapshot == [Snapshot(NoMode, NoTask, 0, 0, FALSE, Null, Null, 0) EXCEPT !.present = FALSE]

\* useState / useRef initial values of a fresh mount
InitialComponent(c) ==
  [c EXCEPT !.activeFocusTaskId = NoTask, !.focusMode = NoMode, !.timerValue = 0,
            !.isTimerActive = FALSE, !.pomodoroCycle = 0, !.endTimeRef = Null,
            !.startTimeRef = Null, !.accumulatedElapsedRef = 0,
            !.cbTimerValue = 0, !.cbEnvTasks = NoEnv]

HasTask(plan, id) == id \in DOMAIN plan.tasks

\* activeFocusTask useMemo
activeFocusTask(c) ==
  IF c.activeFocusTaskId # NoTask /\ HasTask(c.dailyPlan, c.activeFocusTaskId)
  THEN c.activeFocusTaskId ELSE NoTask


\* --------------------------------------------------- Progress write-backs
\* Variant that credits the whole minutes to every task of the plan.
AddMinutesToAll(plan, id, minutes) ==
  [plan EXCEPT !.tasks =
     [t \in DOMAIN plan.tasks |->
        [plan.tasks[t] EXCEPT !.actualDuration = @ + minutes]]]

\* updatePlan({ ...plan, tasks: plan.tasks.map(...) }) of stopTimer:
\* the plan copy of task id gets minutes more actualDuration.
AddMinutes(plan, id, minutes) ==
  [plan EXCEPT !.tasks =
     [t \in DOMAIN plan.tasks |->
        IF t = id
        THEN [plan.tasks[t] EXCEPT !.actualDuration = plan.tasks[t].actualDuration + minutes]
        ELSE plan.tasks[t]]]

\* The completed flag the expiry callback computes for the task it credits.
ExpiryCompleted(t, newPomodoros) ==
  IF t.duration > 0 THEN newPomodoros >= t.duration ELSE t.completed

\* Variant that credits the interval without counting the pomodoro.
CreditPomodoroMinutesOnly(plan, id) == AddMinutes(plan, id, 25)

\* The plan the expiry callback hands to updatePlan.
CreditPomodoro(plan, id) ==
  [plan EXCEPT !.tasks =
     [t \in DOMAIN plan.tasks |->
        IF t = id
        THEN [plan.tasks[t] EXCEPT
                !.actualDuration = plan.tasks[t].actualDuration + 25,
                !.actualPomodoros = plan.tasks[t].actualPomodoros + 1,
                !.completed = ExpiryCompleted(plan.tasks[t], plan.tasks[t].actualPomodoros + 1)]
        ELSE plan.tasks[t]]]

\* env.tasks.map(et => et.id === id ? { ...et, completed: true } : et)
MarkEnvCompleted(tasks, id) ==
  [t \in DOMAIN tasks |-> IF t = id THEN [tasks[t] EXCEPT !.completed = TRUE] ELSE tasks[t]]

\* dailyPlan.tasks.map(t => t.id === id ? { ...t, completed: true } : t)
MarkPlanCompleted(plan, id) ==
  [plan EXCEPT !.tasks =
     [t \in DOMAIN plan.tasks |->
        IF t = id THEN [plan.tasks[t] EXCEPT !.completed = TRUE] ELSE plan.tasks[t]]]

\* Seconds stopTimer converts to minutes: the timerValue of the render the
\* callback was created in, not the value it has just computed from the clock.
TimeSpentInSeconds(mode, renderedTimerValue) ==
  IF mode = "stopwatch" THEN renderedTimerValue
  ELSE IF mode = "pomodoro" THEN POMODORO_TIME - renderedTimerValue
  ELSE 0

\* --------------------------------------------------------------- stopTimer
stopTimer(c, shouldSaveProgress) ==
  LET mode == c.focusMode
      frozen ==
        IF mode = "stopwatch" THEN
          LET acc == computeElapsedSeconds(c.startTimeRef, c.accumulatedElapsedRef, c.now)
          IN  [c EXCEPT !.accumulatedElapsedRef = acc, !.startTimeRef = Null, !.timerValue = acc]
        ELSE IF mode # NoMode /\ c.endTimeRef # Null THEN
          [c EXCEPT !.timerValue = computeRemainingSeconds(c.endTimeRef, c.now),
                    !.endTimeRef = Null]
        ELSE c
      saved ==
        [frozen EXCEPT
           !.isTimerActive = FALSE,
           !.persisted = Snapshot(mode, c.activeFocusTaskId, c.pomodoroCycle,
                                  IF mode = "stopwatch" THEN frozen.accumulatedElapsedRef
                                  ELSE c.timerValue,
                                  FALSE, frozen.endTimeRef, frozen.startTimeRef,
                                  frozen.accumulatedElapsedRef)]
      timeSpentInMinutes == TimeSpentInSeconds(mode, c.timerValue) \div 60
  IN  IF ~shouldSaveProgress \/ c.activeFocusTaskId = NoTask \/ mode = NoMode THEN saved
      ELSE IF timeSpentInMinutes > 0
           THEN [saved EXCEPT !.dailyPlan = AddMinutes(c.dailyPlan, c.activeFocusTaskId,
                                                       timeSpentInMinutes)]
           ELSE saved

\* ----------------------------------------------------------------- effects
\* Persist effect: runs when one of its five dependencies differs from the
\* previous render; it reads the refs as they are at that moment.
PersistEffect(prev, c) ==
  IF \/ prev.focusMode # c.focusMode
     \/ prev.activeFocusTaskId # c.activeFocusTaskId
     \/ prev.pomodoroCycle # c.pomodoroCycle
     \/ prev.timerValue # c.timerValue
     \/ prev.isTimerActive # c.isTimerActive
  THEN [c EXCEPT !.persisted = Snapshot(c.focusMode, c.activeFocusTaskId, c.pomodoroCycle,
                                        c.timerValue, c.isTimerActive, c.endTimeRef,
                                        c.startTimeRef, c.accumulatedElapsedRef)]
  ELSE c

\* Timer driver effect: on a change of isTimerActive, focusMode,
\* activeFocusTaskId or pomodoroCycle the old interval is cleared and, when the
\* timer is active, a new one is created whose callback keeps the timerValue
\* and the user record of this render.  A cleared interval keeps nothing.
TimerEffect(prev, c) ==
  IF ~c.isTimerActive THEN [c EXCEPT !.cbTimerValue = 0, !.cbEnvTasks = NoEnv]
  ELSE IF \/ prev.isTimerActive # c.isTimerActive
          \/ prev.focusMode # c.focusMode
          \/ prev.activeFocusTaskId # c.activeFocusTaskId
          \/ prev.pomodoroCycle # c.pomodoroCycle
  THEN [c EXCEPT
          !.startTimeRef = IF c.focusMode = "stopwatch" /\ c.startTimeRef = Null
                           THEN c.now ELSE c.startTimeRef,
          !.endTimeRef = IF c.focusMode \notin {"stopwatch", NoMode} /\ c.endTimeRef = Null
                         THEN c.now + c.timerValue * 1000 ELSE c.endTimeRef,
          !.cbTimerValue = c.timerValue,
          !.cbEnvTasks = c.envTasks]
  ELSE c

\* Variant that only pauses the session of the missing task.
TeardownPausing(c) == stopTimer(c, FALSE)

\* What the two teardown sites do after they found the task missing.
Teardown(c) ==
  [stopTimer(c, FALSE) EXCEPT
     !.persisted = NoSnapshot, !.startTimeRef = Null, !.endTimeRef = Null,
     !.accumulatedElapsedRef = 0, !.activeFocusTaskId = NoTask, !.focusMode = NoMode,
     !.timerValue = 0]

\* Plan-deletion effect: the active task is no longer in the day's plan.
PlanDeletionEffect(c) ==
  IF c.activeFocusTaskId # NoTask /\ ~HasTask(c.dailyPlan, c.activeFocusTaskId)
  THEN Teardown(c) ELSE c

\* One render after a handler: prev is the render the handler ran in, c what
\* the handler left.  The plan-deletion effect sets state, which renders again.
Render(prev, c) ==
  LET first == TimerEffect(prev, PersistEffect(prev, c))
      torn == PlanDeletionEffect(first)
  IN  IF torn = first THEN first
      ELSE TimerEffect(first, PersistEffect(first, torn))


\* ---------------------------------------------------------------- handlers
handleStartFocus(c, taskId) ==
  LET stopped == IF c.activeFocusTaskId # NoTask THEN stopTimer(c, TRUE) ELSE c
  IN  IF ~HasTask(c.dailyPlan, taskId) THEN stopped
      ELSE IF c.dailyPlan.unit = "pomodoros"
      THEN [stopped EXCEPT
              !.activeFocusTaskId = taskId, !.isTimerActive = TRUE,
              !.focusMode = "pomodoro", !.timerValue = POMODORO_TIME,
              !.endTimeRef = c.now + POMODORO_TIME * 1000,
              !.startTimeRef = Null, !.accumulatedElapsedRef = 0]
      ELSE [stopped EXCEPT
              !.activeFocusTaskId = taskId, !.isTimerActive = TRUE,
              !.focusMode = "stopwatch", !.timerValue = 0,
              !.accumulatedElapsedRef = 0, !.startTimeRef = c.now, !.endTimeRef = Null]

\* Variant without the test of isTimerActive.
handlePauseFocusUnguarded(c) == stopTimer(c, TRUE)

handlePauseFocus(c) ==
  IF c.isTimerActive THEN stopTimer(c, TRUE) ELSE c

\* Variant that resumes a count-down with a whole focus interval ahead.
handleResumeFocusRestarting(c) ==
  IF ~c.isTimerActive /\ c.focusMode # NoMode /\ activeFocusTask(c) # NoTask
  THEN IF c.focusMode = "stopwatch"
       THEN [c EXCEPT !.startTimeRef = c.now, !.isTimerActive = TRUE]
       ELSE [c EXCEPT !.endTimeRef = c.now + POMODORO_TIME * 1000, !.isTimerActive = TRUE]
  ELSE c

handleResumeFocus(c) ==
  IF ~c.isTimerActive /\ c.focusMode # NoMode /\ activeFocusTask(c) # NoTask
  THEN IF c.focusMode = "stopwatch"
       THEN [c EXCEPT !.startTimeRef = c.now, !.isTimerActive = TRUE]
       ELSE [c EXCEPT !.endTimeRef = c.now + c.timerValue * 1000, !.isTimerActive = TRUE]
  ELSE c

handleStopFocus(c) ==
  [stopTimer(c, TRUE) EXCEPT
     !.startTimeRef = Null, !.endTimeRef = Null, !.accumulatedElapsedRef = 0,
     !.activeFocusTaskId = NoTask, !.focusMode = NoMode, !.timerValue = 0]

\* The second updatePlan starts from the dailyPlan of the render the handler
\* ran in, so it replaces the plan stopTimer has just handed to updatePlan.
handleCompleteFocusTask(c) ==
  LET stopped == stopTimer(c, c.focusMode = "stopwatch")
      id == activeFocusTask(c)
  IN  IF id = NoTask THEN stopped
      ELSE [stopped EXCEPT
              !.dailyPlan = MarkPlanCompleted(c.dailyPlan, id),
              !.envTasks = IF c.dailyPlan.tasks[id].environmentId # NoTask
                           THEN MarkEnvCompleted(c.envTasks, id) ELSE c.envTasks,
              !.activeFocusTaskId = NoTask, !.focusMode = NoMode,
              !.startTimeRef = Null, !.endTimeRef = Null,
              !.accumulatedElapsedRef = 0, !.timerValue = 0]

\* onClick of the Skip Break button
skipBreak(c) == [c EXCEPT !.isTimerActive = FALSE, !.focusMode = NoMode]

\* Variant that selects the break from the count before the increment.
NextBreakFromOldCount(nextCycle) ==
  IF (nextCycle - 1) % 4 = 0 THEN <<"long_break", LONG_BREAK_TIME>>
  ELSE <<"short_break", SHORT_BREAK_TIME>>

\* Break chosen after the nextCycle-th focus interval: <<mode, seconds>>.
NextBreak(nextCycle) ==
  IF nextCycle % 4 = 0 THEN <<"long_break", LONG_BREAK_TIME>>
  ELSE <<"short_break", SHORT_BREAK_TIME>>

\* Variant that shows 0 and leaves the run-out interval running.
onIntervalExpiredStillRunning(c) == [c EXCEPT !.timerValue = 0]

\* Variant in which an expired break starts the next focus interval.
onIntervalExpiredAutoFocus(c) ==
  IF c.focusMode = "pomodoro" /\ c.activeFocusTaskId # NoTask THEN
    LET break == NextBreak(c.pomodoroCycle + 1)
    IN  [c EXCEPT
           !.dailyPlan = CreditPomodoro(c.dailyPlan, c.activeFocusTaskId),
           !.pomodoroCycle = c.pomodoroCycle + 1,
           !.focusMode = break[1], !.timerValue = break[2],
           !.endTimeRef = c.now + break[2] * 1000,
           !.isTimerActive = TRUE]
  ELSE IF IsBreak(c.focusMode) THEN
    [c EXCEPT !.focusMode = "pomodoro", !.timerValue = POMODORO_TIME,
              !.endTimeRef = c.now + POMODORO_TIME * 1000,
              !.isTimerActive = TRUE]
  ELSE [c EXCEPT !.isTimerActive = FALSE]

\* Branch of the interval callback taken when a count-down has run out.
onIntervalExpired(c) ==
  IF c.focusMode = "pomodoro" /\ c.activeFocusTaskId # NoTask THEN
    LET id == c.activeFocusTaskId
        updatedPlan == CreditPomodoro(c.dailyPlan, id)
        finished == /\ HasTask(updatedPlan, id)
                    /\ updatedPlan.tasks[id].completed
                    /\ updatedPlan.tasks[id].environmentId # NoTask
        nextCycle == c.pomodoroCycle + 1
        break == NextBreak(nextCycle)
    IN  [c EXCEPT
           !.dailyPlan = updatedPlan,
           !.envTasks = IF finished THEN MarkEnvCompleted(c.cbEnvTasks, id) ELSE c.envTasks,
           !.pomodoroCycle = nextCycle,
           !.focusMode = break[1], !.timerValue = break[2],
           !.endTimeRef = c.now + break[2] * 1000,
           !.isTimerActive = TRUE]
  ELSE IF IsBreak(c.focusMode) THEN
    [c EXCEPT !.isTimerActive = FALSE, !.focusMode = NoMode]
  ELSE [c EXCEPT !.isTimerActive = FALSE]

\* Variant that shows the remaining seconds and never takes the expiry branch.
intervalCallbackWithoutExpiry(c) ==
  IF c.focusMode \in {"pomodoro", "short_break", "long_break"} /\ c.endTimeRef # Null
  THEN [c EXCEPT !.timerValue = computeRemainingSeconds(c.endTimeRef, c.now)]
  ELSE c

\* The setInterval callback.
intervalCallback(c) ==
  IF c.focusMode = "stopwatch" THEN
    [c EXCEPT !.timerValue =
       computeElapsedSeconds(c.startTimeRef, c.accumulatedElapsedRef, c.now)]
  ELSE IF c.focusMode # NoMode THEN
    LET remaining == IF c.endTimeRef # Null
                     THEN computeRemainingSeconds(c.endTimeRef, c.now)
                     ELSE c.cbTimerValue
    IN  IF remaining <= 0 THEN onIntervalExpired(c)
        ELSE [c EXCEPT !.timerValue = remaining]
  ELSE c

\* handleUpdateTasks(newTasks) of the environment task list
handleUpdateTasks(c, newTasks) ==
  LET torn == IF c.activeFocusTaskId # NoTask /\ c.activeFocusTaskId \notin DOMAIN newTasks
              THEN Teardown(c) ELSE c
  IN  [torn EXCEPT
         !.envTasks = newTasks,
         !.dailyPlan =
            [c.dailyPlan EXCEPT !.tasks =
               [t \in DOMAIN c.dailyPlan.tasks |->
                  IF t \in DOMAIN newTasks
                  THEN [c.dailyPlan.tasks[t] EXCEPT !.completed = newTasks[t].completed]
                  ELSE c.dailyPlan.tasks[t]]]]

\* Restore effect of a mount, reading the entry the store holds at that moment.
restoreTimerState(c) ==
  LET parsed == c.persisted
  IN  IF ~parsed.present \/ ~parsed.parses THEN c
      ELSE [c EXCEPT
              !.focusMode = IF parsed.focusMode # NoMode THEN parsed.focusMode ELSE c.focusMode,
              !.activeFocusTaskId = IF parsed.activeFocusTaskId # NoTask
                                    THEN parsed.activeFocusTaskId ELSE c.activeFocusTaskId,
              !.pomodoroCycle = IF parsed.pomodoroCycle # NotANumber
                                THEN parsed.pomodoroCycle ELSE c.pomodoroCycle,
              !.timerValue = IF parsed.timerValue # NotANumber
                             THEN parsed.timerValue ELSE c.timerValue,
              !.endTimeRef = parsed.endTime,
              !.startTimeRef = parsed.startTime,
              !.accumulatedElapsedRef = parsed.accumulated,
              !.isTimerActive = IF parsed.isTimerActive THEN TRUE ELSE c.isTimerActive]

\* Effects of the mount commit in declaration order (persist, restore, timer
\* driver, plan deletion), then the render the restored state causes.
mountEffects(c) ==
  LET fresh == InitialComponent(c)
      written == [fresh EXCEPT !.persisted =
                    Snapshot(fresh.focusMode, fresh.activeFocusTaskId, fresh.pomodoroCycle,
                             fresh.timerValue, fresh.isTimerActive, fresh.endTimeRef,
                             fresh.startTimeRef, fresh.accumulatedElapsedRef)]
  IN  Render(fresh, restoreTimerState(written))


\* -------------------------------------------------------------------- Init
\* First mount on an empty store: t1 has a copy in the environment list and a
\* quota of 2, t2 is a plan-only task without quota.
NewTask(quota) ==
  [duration |-> quota, actualDuration |-> 0, actualPomodoros |-> 0,
   completed |-> FALSE, environmentId |-> "e1"]

Init ==
  /\ now = Epoch0
  /\ activeFocusTaskId = NoTask
  /\ focusMode = NoMode
  /\ timerValue = 0
  /\ isTimerActive = FALSE
  /\ pomodoroCycle = 0
  /\ endTimeRef = Null
  /\ startTimeRef = Null
  /\ accumulatedElapsedRef = 0
  /\ cbTimerValue = 0
  /\ cbEnvTasks = NoEnv
  /\ \E unit \in {"minutes", "pomodoros"} :
       dailyPlan = [unit |-> unit, tasks |-> [t \in TaskIds |-> NewTask(IF t = "t1" THEN 2 ELSE 0)]]
  /\ envTasks = [t \in {"t1"} |-> NewTask(2)]
  /\ persisted = Snapshot(NoMode, NoTask, 0, 0, FALSE, Null, Null, 0)
  /\ intents = 0
  /\ advances = 0

\* ----------------------------------------------------------------- actions
\* The panel with the session buttons is rendered for an active task of the plan.
PanelShown == activeFocusTask(Cur) # NoTask

Intent == intents < MaxIntents /\ intents' = intents + 1

Handled(c) == Commit(Render(Cur, c)) /\ UNCHANGED <<now, advances>>

Advance(d) ==
  /\ advances < MaxAdvances
  /\ advances' = advances + 1
  /\ now' = now + d
  /\ UNCHANGED <<activeFocusTaskId, focusMode, timerValue, isTimerActive,
                 pomodoroCycle, endTimeRef, startTimeRef, accumulatedElapsedRef,
                 cbTimerValue, cbEnvTasks, dailyPlan, envTasks, persisted, intents>>

Tick ==
  /\ isTimerActive
  /\ Handled(intervalCallback(Cur))
  /\ UNCHANGED intents

\* Play button of a task row of the planner: rows of the active task and of
\* completed tasks are not offered.
StartFocus(id) ==
  /\ Intent
  /\ HasTask(dailyPlan, id) /\ id # activeFocusTaskId /\ ~dailyPlan.tasks[id].completed
  /\ Handled(handleStartFocus(Cur, id))

PauseFocus ==
  /\ Intent /\ PanelShown /\ ~IsBreak(focusMode) /\ isTimerActive
  /\ Handled(handlePauseFocus(Cur))

ResumeFocus ==
  /\ Intent /\ PanelShown /\ ~IsBreak(focusMode) /\ ~isTimerActive
  /\ Handled(handleResumeFocus(Cur))

StopFocus ==
  /\ Intent /\ PanelShown /\ ~IsBreak(focusMode)
  /\ Handled(handleStopFocus(Cur))

SkipBreak ==
  /\ Intent /\ PanelShown /\ IsBreak(focusMode)
  /\ Handled(skipBreak(Cur))

CompleteFocusTask ==
  /\ Intent /\ PanelShown
  /\ Handled(handleCompleteFocusTask(Cur))

\* Checkbox of a row of the environment task list
TaskListToggle(id) ==
  /\ Intent /\ id \in DOMAIN envTasks
  /\ Handled(handleUpdateTasks(Cur,
       [envTasks EXCEPT ![id].completed = ~envTasks[id].completed]))

\* Delete button of a row of the environment task list
TaskListDelete(id) ==
  /\ Intent /\ id \in DOMAIN envTasks
  /\ Handled(handleUpdateTasks(Cur, [t \in DOMAIN envTasks \ {id} |-> envTasks[t]]))

\* A task is removed from the day's plan
PlanDelete(id) ==
  /\ Intent /\ HasTask(dailyPlan, id)
  /\ Handled([Cur EXCEPT !.dailyPlan.tasks =
                [t \in DOMAIN dailyPlan.tasks \ {id} |-> dailyPlan.tasks[t]]])

\* The page is reloaded: the component is unmounted (its interval cleared, its
\* state and refs lost) and mounted again for the same user and plan date.
Reload ==
  /\ Intent
  /\ Commit(mountEffects(Cur))
  /\ UNCHANGED <<now, advances>>

Next ==
  \/ \E d \in Deltas : Advance(d)
  \/ Tick
  \/ \E id \in TaskIds : StartFocus(id)
  \/ PauseFocus
  \/ ResumeFocus
  \/ StopFocus
  \/ SkipBreak
  \/ CompleteFocusTask
  \/ \E id \in TaskIds : TaskListToggle(id)
  \/ \E id \in TaskIds : TaskListDelete(id)
  \/ \E id \in TaskIds : PlanDelete(id)
  \/ Reload

Spec == Init /\ [][Next]_vars


\* ------------------------------------------------- mount on a stored entry
\* localStorage.setItem can throw (quota exceeded, storage disabled); both
\* writers catch and ignore that.  When the write of the persist effect is
\* rejected on mount, the restore effect reads the entry an earlier page left
\* in the store, whatever it holds.
StoredEntries ==
  {NoSnapshot, [NoSnapshot EXCEPT !.present = TRUE, !.parses = FALSE]}
  \cup
  {Snapshot(fm, id, cyc, tv, active, endT, startT, 0) :
     fm \in {NoMode, "pomodoro", "stopwatch", "short_break"},
     id \in {NoTask, "t1"},
     cyc \in {NotANumber, 3},
     tv \in {NotANumber, 300},
     active \in BOOLEAN,
     endT \in {Null, Epoch0, Epoch0 + 1500000},
     startT \in {Null, Epoch0}}

\* The page is opened ten minutes after the entry was left in the store.
InitStore ==
  /\ now = Epoch0 + 600000
  /\ activeFocusTaskId = NoTask
  /\ focusMode = NoMode
  /\ timerValue = 0
  /\ isTimerActive = FALSE
  /\ pomodoroCycle = 0
  /\ endTimeRef = Null
  /\ startTimeRef = Null
  /\ accumulatedElapsedRef = 0
  /\ cbTimerValue = 0
  /\ cbEnvTasks = NoEnv
  /\ \E unit \in {"minutes", "pomodoros"} :
       dailyPlan = [unit |-> unit, tasks |-> [t \in TaskIds |-> NewTask(IF t = "t1" THEN 2 ELSE 0)]]
  /\ envTasks = [t \in {"t1"} |-> NewTask(2)]
  /\ persisted \in StoredEntries
  /\ intents = 0
  /\ advances = 0

\* Effects of the mount commit when the store rejects the write of the persist
\* effect: restore reads the entry as it is, then the restored state renders.
mountEffectsOnStoredEntry(c) ==
  LET fresh == InitialComponent(c)
  IN  Render(fresh, restoreTimerState(fresh))

MountOnStoredEntry ==
  /\ intents = 0 /\ intents' = 1
  /\ Commit(mountEffectsOnStoredEntry(Cur))
  /\ UNCHANGED <<now, advances>>

NextStore ==
  \/ MountOnStoredEntry
  \/ Tick
  \/ \E d \in Deltas : Advance(d)

SpecStore == InitStore /\ [][NextStore]_vars

\* ---------------------------------------------------------------------------
\* Third specification: the running component together with the quick-add box
\* of the dashboard, which appends a task to an environment's list.
\* ---------------------------------------------------------------------------

\* Identifier of the task made by the quick-add box (Date.now().toString()).
AdHocId == "adhoc"

\* handleCreateAdHocTask: the parsed task, with no quota and no progress, is
\* appended to the list of its environment through updateUser.
handleCreateAdHocTask(c) ==
  [c EXCEPT !.envTasks =
     [id \in DOMAIN c.envTasks \cup {AdHocId} |->
        IF id = AdHocId THEN NewTask(0) ELSE c.envTasks[id]]]

CreateAdHocTask ==
  /\ Intent /\ AdHocId \notin DOMAIN envTasks
  /\ Handled(handleCreateAdHocTask(Cur))

NextEdits == Next \/ CreateAdHocTask

SpecEdits == Init /\ [][NextEdits]_vars

\* ---------------------------------------------------------------------------
\* Fourth specification: one session that is started and then left alone.
\* The clock is followed up to the first instant at or after the deadline of
\* the running count-down, and window.setInterval delivers the interval
\* callback once a second for as long as the session runs: both steps are
\* weakly fair.
\* ---------------------------------------------------------------------------

\* Date.now() moves on while a count-down has its deadline ahead.
ClockRuns(d) ==
  /\ isTimerActive /\ endTimeRef # Null /\ now < endTimeRef
  /\ now' = now + d
  /\ UNCHANGED <<activeFocusTaskId, focusMode, timerValue, isTimerActive,
                 pomodoroCycle, endTimeRef, startTimeRef, accumulatedElapsedRef,
                 cbTimerValue, cbEnvTasks, dailyPlan, envTasks, persisted,
                 intents, advances>>

\* The first press of a play button.
StartFirstFocus(id) == activeFocusTaskId = NoTask /\ StartFocus(id)

NextLive ==
  \/ \E d \in Deltas : ClockRuns(d)
  \/ Tick
  \/ \E id \in TaskIds : StartFirstFocus(id)

\* Tick has one successor, Render(Cur, intervalCallback(Cur)), so <<Tick>>_vars
\* is enabled exactly where the session runs and that successor differs from
\* the current component.
TickEnabled == isTimerActive /\ Render(Cur, intervalCallback(Cur)) # Cur

\* WF_vars(Tick), with ENABLED <<Tick>>_vars written as TickEnabled.
TickFairness == []<>(~TickEnabled) \/ []<><<Tick>>_vars

SpecLive ==
  /\ Init /\ [][NextLive]_vars
  /\ WF_vars(\E d \in Deltas : ClockRuns(d))
  /\ TickFairness


\* ------------------------------------------------------------------ claims
\* Shorthands of the formulas below.
PlanTask(id) == dailyPlan.tasks[id]

InBothPlans(id) == HasTask(dailyPlan, id) /\ HasTask(dailyPlan', id)

\* A running count-down whose remaining time, read from the clock, is 0.
Expiring ==
  /\ isTimerActive
  /\ focusMode \in {"pomodoro", "short_break", "long_break"}
  /\ endTimeRef # Null
  /\ computeRemainingSeconds(endTimeRef, now) = 0

\* Whole minutes of the stopwatch run since the last start or resume.
WindowMinutes ==
  (IF startTimeRef # Null THEN RoundSeconds(now - startTimeRef) ELSE 0) \div 60

\* C1: a reload while a session is running leaves the session running with
\* the mode, task, cycle count and absolute timestamps it had before.
C1_ReloadSurvival ==
  [][(Reload /\ isTimerActive) =>
       /\ isTimerActive'
       /\ focusMode' = focusMode
       /\ activeFocusTaskId' = activeFocusTaskId
       /\ pomodoroCycle' = pomodoroCycle
       /\ endTimeRef' = endTimeRef
       /\ startTimeRef' = startTimeRef
       /\ accumulatedElapsedRef' = accumulatedElapsedRef]_vars

\* C2: in a count-up plan the minutes credited to a task never exceed the
\* time its sessions can have been running, which is at most the time passed
\* since the plan was new (each run window is rounded to whole seconds, hence
\* the half second allowed per clock advance).
C2_NoDoubleCounting ==
  dailyPlan.unit = "minutes" =>
    \A id \in DOMAIN dailyPlan.tasks :
      PlanTask(id).actualDuration * 60000 <= (now - Epoch0) + 500 * advances

\* C3: pause and stop of a focus count-down leave actualDuration,
\* actualPomodoros and completed of every task as they were.
C3_CountDownPauseCreditsNothing ==
  [][((PauseFocus \/ StopFocus) /\ focusMode = "pomodoro") =>
       dailyPlan'.tasks = dailyPlan.tasks]_vars

\* C4: the tick that finds a running focus count-down at 0 adds exactly one
\* pomodoro and 25 minutes to the task, adds one to the cycle count and leaves
\* a running break with a fresh end time; after the first focus interval this
\* is a short break of 300 s with cycle count 1.
C4_FocusExpiry ==
  [][(Expiring /\ focusMode = "pomodoro" /\ Tick) =>
       /\ HasTask(dailyPlan', activeFocusTaskId)
       /\ dailyPlan'.tasks[activeFocusTaskId].actualPomodoros
            = PlanTask(activeFocusTaskId).actualPomodoros + 1
       /\ dailyPlan'.tasks[activeFocusTaskId].actualDuration
            = PlanTask(activeFocusTaskId).actualDuration + 25
       /\ pomodoroCycle' = pomodoroCycle + 1
       /\ isTimerActive' /\ IsBreak(focusMode')
       /\ endTimeRef' = now + timerValue' * 1000
       /\ activeFocusTaskId' = activeFocusTaskId
       /\ (pomodoroCycle = 0 =>
             focusMode' = "short_break" /\ timerValue' = 300 /\ pomodoroCycle' = 1)]_vars

\* Scenario A: focus started at t = 0, tick at t = 1500 s.
C4_Witness ==
  /\ now = Epoch0 + 1500000
  /\ focusMode = "short_break" /\ isTimerActive /\ timerValue = 300
  /\ endTimeRef = now + 300000
  /\ pomodoroCycle = 1
  /\ activeFocusTaskId = "t1" /\ HasTask(dailyPlan, "t1")
  /\ PlanTask("t1").actualPomodoros = 1 /\ PlanTask("t1").actualDuration = 25

\* C5: the tick that finds a count-down at 0 performs the expiry once: it adds
\* one cycle for a focus interval and none for a break, at most one pomodoro,
\* and only to the session's task, and it leaves no count-down that a
\* further tick, however late, would find expired again without a new interval
\* having been started and run out.
C5_ExpiryOnce ==
  [][(Expiring /\ Tick) =>
       /\ ~Expiring'
       /\ pomodoroCycle' <= pomodoroCycle + 1
       /\ (focusMode = "pomodoro" => pomodoroCycle' = pomodoroCycle + 1)
       /\ \A id \in DOMAIN dailyPlan.tasks :
            /\ HasTask(dailyPlan', id)
            /\ dailyPlan'.tasks[id].actualPomodoros <= PlanTask(id).actualPomodoros + 1
            /\ (id # activeFocusTaskId => dailyPlan'.tasks[id] = PlanTask(id))
       /\ (IsBreak(focusMode) => ~isTimerActive' /\ dailyPlan' = dailyPlan
                                   /\ pomodoroCycle' = pomodoroCycle)]_vars

\* A focus interval whose expiry was found by a tick delivered a whole interval
\* late: one pomodoro credited, the break running.
C5_Witness ==
  /\ now = Epoch0 + 3000000
  /\ IsBreak(focusMode) /\ isTimerActive /\ endTimeRef = now + timerValue * 1000
  /\ pomodoroCycle = 1
  /\ activeFocusTaskId # NoTask /\ HasTask(dailyPlan, activeFocusTaskId)
  /\ PlanTask(activeFocusTaskId).actualPomodoros = 1

\* C6: the break started by the expiry that makes the cycle count k is a long
\* break of 900 s when k is a multiple of 4 and a short break of 300 s
\* otherwise; the count changes only by such an expiry, which adds one, and by
\* a reload: starts, pauses, resumes, stops and completions leave it.
C6_CycleScheduling ==
  [][/\ (Expiring /\ focusMode = "pomodoro" /\ Tick) =>
          /\ pomodoroCycle' = pomodoroCycle + 1
          /\ isTimerActive'
          /\ IF pomodoroCycle' % 4 = 0
             THEN focusMode' = "long_break" /\ timerValue' = 900
                  /\ endTimeRef' = now + 900000
             ELSE focusMode' = "short_break" /\ timerValue' = 300
                  /\ endTimeRef' = now + 300000
     /\ (pomodoroCycle' # pomodoroCycle) =>
          \/ Expiring /\ focusMode = "pomodoro" /\ Tick
          \/ Reload]_vars

\* Scenario B: the fourth expiry has started the long break.
C6_Witness ==
  /\ pomodoroCycle = 4
  /\ focusMode = "long_break" /\ isTimerActive /\ timerValue = 900
  /\ endTimeRef = now + 900000
  /\ HasTask(dailyPlan, "t1") /\ HasTask(dailyPlan, "t2")
  /\ PlanTask("t1").actualPomodoros + PlanTask("t2").actualPomodoros = 4

\* C7: a task that is in the day's plan and in the environment list has the
\* same actualDuration and actualPomodoros in both.
C7_TwoCopies ==
  \A id \in DOMAIN dailyPlan.tasks \cap DOMAIN envTasks :
    /\ PlanTask(id).actualDuration = envTasks[id].actualDuration
    /\ PlanTask(id).actualPomodoros = envTasks[id].actualPomodoros

\* C8: completing the task of a count-up session that shows at least one
\* whole minute leaves the task with more actualDuration and completed, and
\* the session idle.
C8_CompleteKeepsFlush ==
  [][(CompleteFocusTask /\ focusMode = "stopwatch" /\ timerValue >= 60
        /\ WindowMinutes >= 1) =>
       /\ HasTask(dailyPlan', activeFocusTaskId)
       /\ dailyPlan'.tasks[activeFocusTaskId].actualDuration
            > PlanTask(activeFocusTaskId).actualDuration
       /\ dailyPlan'.tasks[activeFocusTaskId].completed
       /\ focusMode' = NoMode /\ activeFocusTaskId' = NoTask /\ ~isTimerActive']_vars

\* C9: no engine operation clears the completed flag of a task of the plan.
C9_CompletedNeverCleared ==
  [][(Tick \/ PauseFocus \/ ResumeFocus \/ StopFocus \/ SkipBreak \/ CompleteFocusTask
        \/ (\E id \in TaskIds : StartFocus(id))) =>
       \A id \in DOMAIN dailyPlan.tasks :
         (HasTask(dailyPlan', id) /\ PlanTask(id).completed) =>
           dailyPlan'.tasks[id].completed]_vars

\* C10: after a pause or stop of a count-up session that added minutes to the
\* task, the task is completed if its actualDuration has reached its quota.
C10_CountUpQuota ==
  [][((PauseFocus \/ StopFocus) /\ focusMode = "stopwatch"
        /\ InBothPlans(activeFocusTaskId)
        /\ dailyPlan'.tasks[activeFocusTaskId].actualDuration
             > PlanTask(activeFocusTaskId).actualDuration
        /\ dailyPlan'.tasks[activeFocusTaskId].actualDuration
             >= dailyPlan'.tasks[activeFocusTaskId].duration) =>
       dailyPlan'.tasks[activeFocusTaskId].completed]_vars

\* C11: after a focus expiry the session's task is completed in the plan, and
\* in the environment list when it has a copy there, whenever its new
\* actualPomodoros has reached its quota, a quota of 0 included.
C11_PomodoroQuota ==
  [][(Expiring /\ focusMode = "pomodoro" /\ Tick
        /\ HasTask(dailyPlan', activeFocusTaskId)
        /\ dailyPlan'.tasks[activeFocusTaskId].actualPomodoros
             >= dailyPlan'.tasks[activeFocusTaskId].duration) =>
       /\ dailyPlan'.tasks[activeFocusTaskId].completed
       /\ (activeFocusTaskId \in DOMAIN envTasks' =>
             envTasks'[activeFocusTaskId].completed)]_vars

\* The task the session refers to is deleted by this step, from the day's
\* plan or from the environment list.
ReferencedTaskDeleted ==
  /\ activeFocusTaskId # NoTask
  /\ \/ HasTask(dailyPlan, activeFocusTaskId) /\ ~HasTask(dailyPlan', activeFocusTaskId)
     \/ activeFocusTaskId \in DOMAIN envTasks /\ activeFocusTaskId \notin DOMAIN envTasks'

\* What the restore effect makes of the store entry of the next state.
RestoredNext == restoreTimerState([InitialComponent(Cur) EXCEPT !.persisted = persisted'])

C13_ListUpdateKeepsSession ==
  [][(~ReferencedTaskDeleted
        /\ \E id \in TaskIds : TaskListToggle(id) \/ TaskListDelete(id)) =>
       /\ activeFocusTaskId' = activeFocusTaskId /\ focusMode' = focusMode
       /\ isTimerActive' = isTimerActive /\ timerValue' = timerValue
       /\ pomodoroCycle' = pomodoroCycle
       /\ endTimeRef' = endTimeRef /\ startTimeRef' = startTimeRef
       /\ accumulatedElapsedRef' = accumulatedElapsedRef
       /\ persisted' = persisted]_vars

\* C14: the session has no mode exactly when it has no task.
C14_IdleIffNoTask ==
  (focusMode = NoMode) <=> (activeFocusTaskId = NoTask)

\* C15: a running session has exactly the timestamp of its mode (the start
\* time of a count-up, the end time of a count-down); a session that is not
\* running has neither.
C15_Timestamps ==
  IF isTimerActive
  THEN \/ focusMode = "stopwatch" /\ startTimeRef # Null /\ endTimeRef = Null
       \/ focusMode \in {"pomodoro", "short_break", "long_break"}
            /\ endTimeRef # Null /\ startTimeRef = Null
  ELSE startTimeRef = Null /\ endTimeRef = Null

\* Seconds the session shows when they are computed from the clock: elapsed
\* seconds of a count-up, remaining seconds of a count-down.
LiveSeconds ==
  IF focusMode = "stopwatch"
  THEN computeElapsedSeconds(startTimeRef, accumulatedElapsedRef, now)
  ELSE computeRemainingSeconds(endTimeRef, now)

\* Seconds a paused session holds.
FrozenSeconds ==
  IF focusMode = "stopwatch" THEN accumulatedElapsedRef ELSE timerValue

PausedSession == ~isTimerActive /\ focusMode \in {"stopwatch", "pomodoro"}

\* C16: a pause freezes the seconds computed from the clock at that moment,
\* the clock does not move them while the session is paused, and the seconds
\* computed from the clock right after the resume are the frozen ones.
C16_PauseResumeNoOp ==
  [][/\ (isTimerActive /\ focusMode \in {"stopwatch", "pomodoro"} /\ PauseFocus) =>
          /\ PausedSession' /\ focusMode' = focusMode
          /\ FrozenSeconds' = LiveSeconds /\ timerValue' = LiveSeconds
     /\ (PausedSession /\ now' # now) =>
          PausedSession' /\ focusMode' = focusMode /\ FrozenSeconds' = FrozenSeconds
     /\ (PausedSession /\ ResumeFocus) =>
          /\ isTimerActive' /\ focusMode' = focusMode
          /\ LiveSeconds' = FrozenSeconds]_vars

\* A focus count-down paused with 1375 s left and resumed 1500 s later.
C16_Witness ==
  /\ focusMode = "pomodoro" /\ isTimerActive /\ pomodoroCycle = 0
  /\ now = Epoch0 + 1625500
  /\ endTimeRef = now + 1375000 /\ timerValue = 1375

\* C17: a pause or stop in the first run window of a count-up session (nothing
\* flushed before) adds to the task the whole minutes of the elapsed seconds
\* computed from the clock at that moment, whatever ticks were delivered.
C17_TickIndependence ==
  [][(isTimerActive /\ focusMode = "stopwatch" /\ accumulatedElapsedRef = 0
        /\ InBothPlans(activeFocusTaskId) /\ (PauseFocus \/ StopFocus)) =>
       dailyPlan'.tasks[activeFocusTaskId].actualDuration
         = PlanTask(activeFocusTaskId).actualDuration + (LiveSeconds \div 60)]_vars

\* What the restore effect makes of the store entry of this state.
Restored == restoreTimerState([InitialComponent(Cur) EXCEPT !.persisted = persisted])

\* C18: in every state the engine reaches, restore applied to the stored
\* snapshot of the state yields the state again: mode, task, cycle count,
\* running flag, seconds and both timestamps.
C18_RoundTrip ==
  /\ persisted.present
  /\ Restored.focusMode = focusMode
  /\ Restored.activeFocusTaskId = activeFocusTaskId
  /\ Restored.pomodoroCycle = pomodoroCycle
  /\ Restored.isTimerActive = isTimerActive
  /\ Restored.timerValue = timerValue
  /\ Restored.endTimeRef = endTimeRef
  /\ Restored.startTimeRef = startTimeRef
  /\ Restored.accumulatedElapsedRef = accumulatedElapsedRef

\* A count-up session paused after 126 s, and its snapshot in the store.
C18_Witness ==
  /\ focusMode = "stopwatch" /\ ~isTimerActive /\ activeFocusTaskId = "t1"
  /\ accumulatedElapsedRef = 126 /\ timerValue = 126 /\ startTimeRef = Null
  /\ persisted.present /\ persisted.focusMode = "stopwatch"
  /\ persisted.accumulated = 126 /\ ~persisted.isTimerActive
  /\ Restored.accumulatedElapsedRef = 126

\* An entry that is missing, does not parse, or lacks fields a session needs.
MalformedEntry ==
  \/ ~persisted.present
  \/ ~persisted.parses
  \/ persisted.isTimerActive /\ persisted.focusMode = NoMode
  \/ persisted.focusMode # NoMode /\ persisted.activeFocusTaskId = NoTask
  \/ persisted.pomodoroCycle = NotANumber
  \/ persisted.timerValue = NotANumber

\* C19: the mount that reads a missing, unparseable or malformed entry leaves
\* the idle session: no mode, no task, not running, no timestamps.
C19_MalformedRestoresIdle ==
  [][(MalformedEntry /\ MountOnStoredEntry) =>
       /\ focusMode' = NoMode /\ activeFocusTaskId' = NoTask /\ ~isTimerActive'
       /\ endTimeRef' = Null /\ startTimeRef' = Null]_vars

\* A stored snapshot of a running focus count-down of t1 whose end has passed.
RunningFocusEntryInPast ==
  /\ persisted.present /\ persisted.parses
  /\ persisted.isTimerActive /\ persisted.focusMode = "pomodoro"
  /\ persisted.activeFocusTaskId = "t1"
  /\ persisted.endTime # Null /\ persisted.endTime <= now

\* C20: the mount that restores a running focus count-down whose end time has
\* passed leaves it running with 0 seconds remaining; the tick that finds it so
\* credits one pomodoro and 25 minutes, starts the break and leaves nothing to
\* expire again; no task ever gets a second pomodoro from the restored interval.
C20_RestoredExpiry ==
  [][/\ (RunningFocusEntryInPast /\ MountOnStoredEntry) =>
          /\ isTimerActive' /\ focusMode' = "pomodoro" /\ activeFocusTaskId' = "t1"
          /\ endTimeRef' = persisted.endTime
          /\ LiveSeconds' = 0 /\ Expiring'
     /\ (Expiring /\ focusMode = "pomodoro" /\ activeFocusTaskId = "t1" /\ Tick) =>
          /\ HasTask(dailyPlan', activeFocusTaskId)
          /\ dailyPlan'.tasks[activeFocusTaskId].actualPomodoros
               = PlanTask(activeFocusTaskId).actualPomodoros + 1
          /\ dailyPlan'.tasks[activeFocusTaskId].actualDuration
               = PlanTask(activeFocusTaskId).actualDuration + 25
          /\ IsBreak(focusMode') /\ isTimerActive'
          /\ endTimeRef' = now + timerValue' * 1000
          /\ ~Expiring'
     /\ \A id \in DOMAIN dailyPlan'.tasks : dailyPlan'.tasks[id].actualPomodoros <= 1]_vars

\* Scenario E: the snapshot's end time is ten minutes in the past; the first
\* tick after the mount has credited the pomodoro and started the break.
C20_Witness ==
  /\ intents = 1 /\ advances = 0 /\ now = Epoch0 + 600000
  /\ persisted.present
  /\ IsBreak(focusMode) /\ isTimerActive /\ endTimeRef = now + timerValue * 1000
  /\ activeFocusTaskId = "t1"
  /\ PlanTask("t1").actualPomodoros = 1 /\ PlanTask("t1").actualDuration = 25

\* The session fields are left as they are by this step.
SessionUnchanged ==
  /\ activeFocusTaskId' = activeFocusTaskId /\ focusMode' = focusMode
  /\ isTimerActive' = isTimerActive /\ timerValue' = timerValue
  /\ pomodoroCycle' = pomodoroCycle
  /\ endTimeRef' = endTimeRef /\ startTimeRef' = startTimeRef
  /\ accumulatedElapsedRef' = accumulatedElapsedRef

\* C21: a start issued while a session is active (it has a mode, running or
\* paused) changes neither the session nor any task record.
C21_StartOnlyFromIdle ==
  [][(focusMode # NoMode /\ \E id \in TaskIds : StartFocus(id)) =>
       SessionUnchanged /\ dailyPlan' = dailyPlan /\ envTasks' = envTasks]_vars

\* C22: in every reachable state, a pause of a session that is not running, a
\* resume of a session that is running and a resume without a mode leave the
\* component as it is after the render that follows: session, store entry,
\* plan and environment list.
C22_InvalidTransitionsNoOp ==
  /\ ~isTimerActive => Render(Cur, handlePauseFocus(Cur)) = Cur
  /\ (isTimerActive \/ focusMode = NoMode) => Render(Cur, handleResumeFocus(Cur)) = Cur

\* A count-up session paused with two uncredited-looking minutes on display
\* (a second pause would have them to credit), and a session that kept its
\* task after the break was skipped (a resume finds no mode).
C22_Witness ==
  \/ /\ focusMode = "stopwatch" /\ ~isTimerActive /\ timerValue = 126
     /\ activeFocusTaskId = "t1" /\ HasTask(dailyPlan, "t1")
     /\ handlePauseFocus(Cur) = Cur
     /\ stopTimer(Cur, TRUE) # Cur
  \/ /\ focusMode = NoMode /\ activeFocusTaskId = "t1" /\ ~isTimerActive
     /\ pomodoroCycle = 1 /\ intents = 3
     /\ handleResumeFocus(Cur) = Cur

\* The completed flags of both copies of every task are as they were.
CompletedFlagsUnchanged ==
  /\ \A id \in DOMAIN dailyPlan.tasks :
       id \in DOMAIN dailyPlan'.tasks /\
       dailyPlan'.tasks[id].completed = dailyPlan.tasks[id].completed
  /\ \A id \in DOMAIN envTasks :
       id \in DOMAIN envTasks' /\ envTasks'[id].completed = envTasks[id].completed

\* C23: a press of Done while the mode is a break or there is no mode marks no
\* task completed and leaves the session as it is.
C23_CompleteOnlyInFocus ==
  [][((IsBreak(focusMode) \/ focusMode = NoMode) /\ CompleteFocusTask) =>
       SessionUnchanged /\ CompletedFlagsUnchanged]_vars

\* C24: the tick on which a long break expires leaves the cycle count at 0.
C24_LongBreakResetsCycle ==
  [][(focusMode = "long_break" /\ Expiring /\ Tick) => pomodoroCycle' = 0]_vars

\* C25: a stop ends with no mode, no task, not running, both timestamps null
\* and no seconds; a stop of a session that is already paused adds nothing to
\* what the pause credited to the plan.
C25_Stop ==
  [][StopFocus =>
       /\ focusMode' = NoMode /\ activeFocusTaskId' = NoTask /\ ~isTimerActive'
       /\ endTimeRef' = Null /\ startTimeRef' = Null
       /\ timerValue' = 0 /\ accumulatedElapsedRef' = 0
       /\ (~isTimerActive => dailyPlan' = dailyPlan)]_vars

\* C26: the tick on which a break expires leaves the session not running and
\* without a mode; and a step after which a focus mode is running, that was
\* not running a focus mode before, is a start or a resume.
C26_BreakEndsIdle ==
  [][/\ (IsBreak(focusMode) /\ Expiring /\ Tick) =>
          (~isTimerActive' /\ focusMode' = NoMode)
     /\ (/\ focusMode' \in {"pomodoro", "stopwatch"} /\ isTimerActive'
         /\ ~(focusMode \in {"pomodoro", "stopwatch"} /\ isTimerActive)) =>
          ((\E id \in TaskIds : StartFocus(id)) \/ ResumeFocus)]_vars

\* The short break that followed the first focus interval has expired by
\* itself: the only press was the start.
C26_Witness ==
  /\ focusMode = NoMode /\ ~isTimerActive /\ activeFocusTaskId = "t1"
  /\ pomodoroCycle = 1 /\ intents = 1 /\ advances = 2
  /\ endTimeRef # Null /\ now >= endTimeRef

\* The plan that handleCompleteFocusTask hands to updatePlan first, through
\* its call of stopTimer, before it writes the plan with the flag set.
planAfterStopTimerOfComplete == stopTimer(Cur, focusMode = "stopwatch").dailyPlan

\* Every task of plan p that is also in plan q has at least p's progress in q.
ProgressNotBelow(p, q) ==
  \A id \in DOMAIN p.tasks \cap DOMAIN q.tasks :
    /\ q.tasks[id].actualDuration >= p.tasks[id].actualDuration
    /\ q.tasks[id].actualPomodoros >= p.tasks[id].actualPomodoros

\* C27: no step decreases the actualDuration or actualPomodoros of a task of
\* the plan, and the plan written last by a press of Done has no less of
\* either than the plan the same press wrote first.
C27_ProgressMonotone ==
  [][/\ ProgressNotBelow(dailyPlan, dailyPlan')
     /\ (PanelShown /\ CompleteFocusTask) =>
          ProgressNotBelow(planAfterStopTimerOfComplete, dailyPlan')]_vars

\* C28: the tick of a focus expiry that writes the environment list changes
\* in it only the record of the session's task: the list has the same tasks
\* as before and every other record is as it was.
C28_ExpiryWriteKeepsEdits ==
  [][(Expiring /\ focusMode = "pomodoro" /\ envTasks' # envTasks /\ Tick) =>
       /\ DOMAIN envTasks' = DOMAIN envTasks
       /\ \A id \in DOMAIN envTasks :
            id # activeFocusTaskId => envTasks'[id] = envTasks[id]]_vars

\* C29: with the clock advancing and the interval callback delivered, a
\* running pomodoro leads to a break, and a running break leads to a session
\* that is not running and has no mode.
C29_CycleTerminates ==
  /\ (focusMode = "pomodoro" /\ isTimerActive) ~> IsBreak(focusMode)
  /\ (IsBreak(focusMode) /\ isTimerActive) ~> (focusMode = NoMode /\ ~isTimerActive)

\* One start, the focus interval credited, and the break after it over.
C29_Witness ==
  /\ intents = 1 /\ pomodoroCycle = 1 /\ focusMode = NoMode /\ ~isTimerActive
  /\ activeFocusTaskId = "t1" /\ PlanTask("t1").actualPomodoros = 1
  /\ now >= Epoch0 + (POMODORO_TIME + SHORT_BREAK_TIME) * 1000

\* Progress fields of task id of the plan are the same before and after.
ProgressUnchanged(id) ==
  /\ dailyPlan'.tasks[id].actualDuration = dailyPlan.tasks[id].actualDuration
  /\ dailyPlan'.tasks[id].actualPomodoros = dailyPlan.tasks[id].actualPomodoros

\* C30: a step changes the progress fields of no task of the plan other than
\* the session's task, and of no task at all while the mode is a break; the
\* progress fields of the environment list never change.
C30_OnlyOwnTaskOnlyFocus ==
  [][/\ \A id \in DOMAIN dailyPlan.tasks \cap DOMAIN dailyPlan'.tasks :
          (id # activeFocusTaskId \/ IsBreak(focusMode)) => ProgressUnchanged(id)
     /\ \A id \in DOMAIN envTasks \cap DOMAIN envTasks' :
          /\ envTasks'[id].actualDuration = envTasks[id].actualDuration
          /\ envTasks'[id].actualPomodoros = envTasks[id].actualPomodoros]_vars

\* A second task was started in the middle of the first one's pomodoro: the
\* two whole minutes on display went to the first task, none to the second.
C30_Witness ==
  /\ activeFocusTaskId = "t2" /\ focusMode = "pomodoro"
  /\ HasTask(dailyPlan, "t1") /\ HasTask(dailyPlan, "t2")
  /\ PlanTask("t1").actualDuration = 2 /\ PlanTask("t1").actualPomodoros = 0
  /\ PlanTask("t2").actualDuration = 0 /\ PlanTask("t2").actualPomodoros = 0

====
